---- MODULE Spec2Model ----
(***************************************************************************)
(* Luton-Sellars hot flow stress model                                     *)
(* (LutonSellarsHotFlowStressModelling.ipynb): luton_sellars_solve, the    *)
(* Portion container, the laws ludwik / avrami / avrami_increment, and the *)
(* list comprehension that runs the solver once per strain rate.           *)
(*                                                                         *)
(* Numbers.  The notebook computes in binary floating point.  The model    *)
(* keeps that arithmetic at a reduced width: a value is an integer count   *)
(* of 1/ONE, every operation rounds its exact result to MantBits           *)
(* significant bits (round half to even), a result above MaxFinite is      *)
(* infinite, and inf - inf is NaN.  A power of a negative number with a    *)
(* fractional exponent is a complex number in Python; the model keeps one  *)
(* marker, Cplx, for every non-real value.                                 *)
(*                                                                         *)
(* The reference run (luton_sellars_solve(0.5) with the constants of the   *)
(* notebook, 200 iterations) is followed by SpecReference.  There the      *)
(* strains, whose comparison with strain_critical and strain_max decides   *)
(* what an iteration does, are IEEE 754 binary64 numbers with the exact    *)
(* rounding of the additions; times, volume shares and stresses are fixed  *)
(* point numbers with FracBits fraction bits.                              *)
(***************************************************************************)
EXTENDS Integers, Sequences, FiniteSets, TLC

\* ------------------------------------------------------------ bounds
MantBits == 6   \* significant bits of a float of the model
MaxSteps == 8   \* iterations of the while loop the model follows in one run
MaxRates == 2   \* length of the list of rates
FracBits == 20  \* fraction bits of a fixed-point number of the reference run

\* ------------------------------------------------- the float format
ONE == 2^10                       \* the lattice: the real 1.0
ExpSpan == 11                     \* exponents above the finest quantum
MaxFinite == (2^MantBits - 1) * 2^ExpSpan
PosInf == MaxFinite + 1
NegInf == -PosInf
NaN == MaxFinite + 2
Cplx == MaxFinite + 3
IntMax == 2^30 + (2^30 - 1)

Abs(n) == IF n < 0 THEN -n ELSE n
Sgn(n) == IF n < 0 THEN -1 ELSE 1

IsNaN(a) == a = NaN
IsCplx(a) == a = Cplx
IsInf(a) == a = PosInf \/ a = NegInf
IsFinite(a) == ~IsNaN(a) /\ ~IsCplx(a) /\ ~IsInf(a)

RECURSIVE BitLen(_)
BitLen(n) == IF n = 0 THEN 0 ELSE 1 + BitLen(n \div 2)

\* The quantum (unit in the last place) of a magnitude whose integer part is ip.
Quantum(ip) == IF ip < 2^MantBits THEN 1 ELSE 2^(BitLen(ip) - MantBits)

\* num/den (den > 0), in lattice units, rounded to the nearest float of the
\* model, ties to even; PosInf/NegInf on overflow.
RoundQ(num, den) ==
    LET m == Abs(num)
        q == Quantum(m \div den)
        d == den * q
        k == m \div d
        r == m % d
        up == IF 2 * r > d THEN k + 1
              ELSE IF 2 * r = d THEN k + (k % 2)
              ELSE k
        v == up * q
    IN  IF v > MaxFinite THEN (IF num < 0 THEN NegInf ELSE PosInf)
        ELSE Sgn(num) * v

Round(n) == RoundQ(n, 1)

\* A decimal literal num/den of the source, as the float nearest to it.
Lit(num, den) == RoundQ(num * ONE, den)

FNeg(a) == IF IsNaN(a) \/ IsCplx(a) THEN a ELSE -a

\* float + float
FAdd(a, b) ==
    IF IsCplx(a) \/ IsCplx(b) THEN Cplx
    ELSE IF IsNaN(a) \/ IsNaN(b) THEN NaN
    ELSE IF IsInf(a) /\ IsInf(b) THEN (IF a = b THEN a ELSE NaN)
    ELSE IF IsInf(a) THEN a
    ELSE IF IsInf(b) THEN b
    ELSE Round(a + b)

\* float - float
FSub(a, b) == FAdd(a, FNeg(b))

\* TRUE when the exact product of two finite floats is beyond every finite float.
MulOverflows(a, b) == a # 0 /\ b # 0 /\ Abs(a) > (IntMax \div Abs(b))

\* float * float
FMul(a, b) ==
    IF IsCplx(a) \/ IsCplx(b) THEN Cplx
    ELSE IF IsNaN(a) \/ IsNaN(b) THEN NaN
    ELSE IF IsInf(a) \/ IsInf(b)
         THEN (IF a = 0 \/ b = 0 THEN NaN
               ELSE IF Sgn(a) = Sgn(b) THEN PosInf ELSE NegInf)
    ELSE IF MulOverflows(a, b)
         THEN (IF Sgn(a) = Sgn(b) THEN PosInf ELSE NegInf)
    ELSE RoundQ(a * b, ONE)

\* float / float, for a divisor that is not zero (Python raises on zero).
FDiv(a, b) ==
    IF IsCplx(a) \/ IsCplx(b) THEN Cplx
    ELSE IF IsNaN(a) \/ IsNaN(b) THEN NaN
    ELSE IF IsInf(a) /\ IsInf(b) THEN NaN
    ELSE IF IsInf(a) THEN (IF Sgn(a) = Sgn(b) THEN PosInf ELSE NegInf)
    ELSE IF IsInf(b) THEN 0
    ELSE IF MulOverflows(a, ONE)
         THEN (IF Sgn(a) = Sgn(b) THEN PosInf ELSE NegInf)
    ELSE RoundQ(Sgn(b) * a * ONE, Abs(b))

\* Comparisons of Python floats: every comparison with NaN is False.
FLt(a, b) == ~IsNaN(a) /\ ~IsNaN(b) /\ a < b
FGt(a, b) == FLt(b, a)
FGe(a, b) == ~IsNaN(a) /\ ~IsNaN(b) /\ a >= b

\* ------------------------------------------------------------ the laws
\* x ** 0.2 for a float x >= 0: the fifth root, to RootScale steps per unit.
RootScale == 2^4
FifthRoot(a) ==
    LET y == a * ((RootScale^5) \div ONE)
        r == CHOOSE c \in 0..(3 * RootScale) :
                 c^5 <= y /\ (c + 1)^5 > y
    IN  RoundQ(r * ONE, RootScale)

\* float ** ludvig_n, ludvig_n = 0.2 (Python: a negative base gives a complex number)
PowLudvigN(a) ==
    IF IsCplx(a) THEN Cplx
    ELSE IF IsNaN(a) THEN NaN
    ELSE IF a = PosInf THEN PosInf
    ELSE IF a < 0 THEN Cplx
    ELSE FifthRoot(a)

ludvig_k0 == Lit(100, 1)

ludwik(strain) == FMul(ludvig_k0, PowLudvigN(FAdd(strain, Lit(1, 100))))

\* e^(-f/ONE) for 0 <= f <= ONE, in lattice units: the power series, by Horner.
ExpTerms == 8
RECURSIVE Horner(_, _)
Horner(f, i) ==
    IF i > ExpTerms THEN ONE
    ELSE ONE - ((f * Horner(f, i + 1) + ((i * ONE) \div 2)) \div (i * ONE))

\* 1/e, in lattice units
InvE == Horner(ONE, 1)

\* v * (1/e)^q, in lattice units
RECURSIVE TimesInvE(_, _)
TimesInvE(v, q) ==
    IF q = 0 \/ v = 0 THEN v
    ELSE TimesInvE((v * InvE + (ONE \div 2)) \div ONE, q - 1)

\* np.exp(a) for a float a <= 0 (underflows to 0)
FExp(a) ==
    IF IsCplx(a) THEN Cplx
    ELSE IF IsNaN(a) THEN NaN
    ELSE IF a = NegInf THEN 0
    ELSE IF a = PosInf THEN PosInf
    ELSE LET m == Abs(a)
             e == Round(TimesInvE(Horner(m % ONE, 1), m \div ONE))
         IN  IF a <= 0 THEN e
             ELSE IF e = 0 THEN PosInf
             ELSE RoundQ(ONE * ONE, e)

avrami_k == Lit(2, 10)
avrami_n == 2

\* time ** avrami_n, avrami_n a small natural number: repeated product
RECURSIVE FPow(_, _)
FPow(a, n) == IF n = 0 THEN ONE ELSE FMul(a, FPow(a, n - 1))

\* Python raises OverflowError when float ** int leaves the finite range.
PowOverflows(a) == IsFinite(a) /\ IsInf(FPow(a, avrami_n))

avrami(time) == FSub(ONE, FExp(FMul(FNeg(avrami_k), FPow(time, avrami_n))))

avrami_increment(time, increment) ==
    FSub(avrami(FAdd(time, increment)), avrami(time))

\* avrami_increment(time, increment) raises OverflowError
IncrementRaises(time, increment) ==
    PowOverflows(FAdd(time, increment)) \/ PowOverflows(time)

\* ------------------------------------- binary64, for the reference run
\* The strain of the reference run is kept as Python keeps it: an IEEE 754
\* binary64 number <<e, hi, lo>> of value (hi * LoBase + lo) * 2^e, with a
\* significand of 53 bits (hi holds the upper 26, lo the lower 27), or zero.
LoBase == 2^27
HiTop == 2^26
B64Zero == <<-(2^11), 0, 0>>

B64IsZero(a) == a[2] = 0 /\ a[3] = 0

\* a significand plus one unit in the last place
B64Up(e, hi, lo) ==
    IF lo + 1 < LoBase THEN <<e, hi, lo + 1>>
    ELSE IF hi + 1 < HiTop THEN <<e, hi + 1, 0>>
    ELSE <<e + 1, HiTop \div 2, 0>>

\* round to nearest, ties to even: guard is the first bit dropped, sticky says
\* that a later one is set
B64Round(e, hi, lo, guard, sticky) ==
    IF guard = 1 /\ (sticky \/ lo % 2 = 1) THEN B64Up(e, hi, lo)
    ELSE <<e, hi, lo>>

\* n more bits of the quotient r / den (r < den), after the bits in acc
RECURSIVE DivBits(_, _, _, _)
DivBits(r, den, n, acc) ==
    IF n = 0 THEN <<acc, r>>
    ELSE IF 2 * r >= den THEN DivBits(2 * r - den, den, n - 1, 2 * acc + 1)
         ELSE DivBits(2 * r, den, n - 1, 2 * acc)

\* num * 2^k / den with den <= num * 2^k < 2 * den: the exponent k
RECURSIVE Scale(_, _)
Scale(num, den) ==
    IF num < den THEN Scale(2 * num, den) - 1
    ELSE IF num >= 2 * den THEN Scale(num, 2 * den) + 1
    ELSE 0

\* The float literal num/den (num >= 0, den > 0), correctly rounded.
B64Lit(num, den) ==
    IF num = 0 THEN B64Zero
    ELSE LET k == Scale(num, den)
             n == IF k < 0 THEN num * 2^(-k) ELSE num
             d == IF k > 0 THEN den * 2^k ELSE den
             h == DivBits(n - d, d, 25, 1)
             l == DivBits(h[2], d, 27, 0)
             g == DivBits(l[2], d, 1, 0)
         IN  B64Round(k - 52, h[1], l[1], g[1], g[2] # 0)

\* a < b, a >= b for numbers that are zero or positive
B64Lt(a, b) ==
    \/ a[1] < b[1]
    \/ a[1] = b[1] /\ a[2] < b[2]
    \/ a[1] = b[1] /\ a[2] = b[2] /\ a[3] < b[3]
B64Ge(a, b) == ~B64Lt(a, b)

\* The sum of a >= b > 0: b is shifted to the exponent of a, the significands
\* are added and the sum is rounded once.
B64AddOrdered(a, b) ==
    LET s == a[1] - b[1]
        q == IF s = 0 THEN <<b[2], b[3]>>
             ELSE IF s <= 27
                  THEN <<b[2] \div 2^s,
                         (b[2] % 2^s) * 2^(27 - s) + b[3] \div 2^s>>
             ELSE IF s <= 53 THEN <<0, b[2] \div 2^(s - 27)>>
             ELSE <<0, 0>>
        guard == IF s = 0 THEN 0
                 ELSE IF s <= 27 THEN (b[3] \div 2^(s - 1)) % 2
                 ELSE IF s <= 53 THEN (b[2] \div 2^(s - 28)) % 2
                 ELSE 0
        sticky == IF s = 0 THEN FALSE
                  ELSE IF s <= 27 THEN b[3] % 2^(s - 1) # 0
                  ELSE IF s <= 53 THEN b[2] % 2^(s - 28) # 0 \/ b[3] # 0
                  ELSE TRUE
        lo == a[3] + q[2]
        hi == a[2] + q[1] + lo \div LoBase
        l == lo % LoBase
    IN  IF hi < HiTop THEN B64Round(a[1], hi, l, guard, sticky)
        ELSE B64Round(a[1] + 1, hi \div 2, (hi % 2) * (LoBase \div 2) + l \div 2,
                      l % 2, guard = 1 \/ sticky)

\* a + b for numbers that are zero or positive
B64Add(a, b) ==
    IF B64IsZero(a) THEN b
    ELSE IF B64IsZero(b) THEN a
    ELSE IF B64Lt(a, b) THEN B64AddOrdered(b, a)
    ELSE B64AddOrdered(a, b)

\* ------------------------- fixed point, for the reference run
\* Times, volume shares and stresses of the reference run are counts of
\* 1/QONE, every product and quotient rounded to the nearest count.
QONE == 2^FracBits
HalfLo == 2^(FracBits \div 2)
HalfHi == 2^(FracBits - FracBits \div 2)

\* num/den (num >= 0, den > 0), rounded
DivRound(num, den) == (2 * num + den) \div (2 * den)

QLit(num, den) == Sgn(num) * DivRound(Abs(num) * QONE, den)

\* x * y for x, y >= 0; the partial products stay within 31 bits
QMulAbs(x, y) ==
    LET xh == x \div HalfLo
        xl == x % HalfLo
        yh == y \div HalfHi
        yl == y % HalfHi
        b == xh * yl
        c == xl * yh
    IN  xh * yh + b \div HalfHi + c \div HalfLo
            + ((b % HalfHi) * HalfLo + (c % HalfLo) * HalfHi + xl * yl
                   + QONE \div 2) \div QONE

QMul(x, y) == Sgn(x) * Sgn(y) * QMulAbs(Abs(x), Abs(y))

\* x / y for x >= 0, y > 0
QDiv(x, y) ==
    LET f == DivBits(x % y, y, FracBits, 0)
    IN  (x \div y) * QONE + f[1] + (IF 2 * f[2] >= y THEN 1 ELSE 0)

\* binary64 to fixed point (values below 2^10)
ToQ(a) ==
    IF B64IsZero(a) THEN 0
    ELSE LET s == -(a[1] + FracBits) - 27
         IN  IF s > 26 THEN 0
             ELSE (a[2] \div 2^s) + ((a[2] \div 2^(s - 1)) % 2)

\* exp(-f) for 0 <= f <= 1, from the term i of the series on
RECURSIVE QHorner(_, _)
QHorner(f, n) ==
    IF n > ExpTerms THEN QONE
    ELSE QONE - DivRound(QMulAbs(f, QHorner(f, n + 1)), n)

QInvE == QHorner(QONE, 1)

RECURSIVE QTimesInvE(_, _)
QTimesInvE(v, n) == IF n = 0 \/ v = 0 THEN v ELSE QTimesInvE(QMulAbs(v, QInvE), n - 1)

\* np.exp(a) for a <= 0
QExp(a) == QTimesInvE(QHorner((-a) % QONE, 1), (-a) \div QONE)

RECURSIVE QPow(_, _)
QPow(a, n) == IF n = 0 THEN QONE ELSE QMul(QPow(a, n - 1), a)

\* a ** 0.2 for 0 < a < 32: the fifth root, by Newton's iteration downwards
\* from c, a value at or above the root
RECURSIVE QRoot(_, _)
QRoot(a, c) ==
    LET next == (4 * c + QDiv(a, QMulAbs(QMulAbs(c, c), QMulAbs(c, c)))) \div 5
    IN  IF next >= c THEN c ELSE QRoot(a, next)

QPowLudvigN(a) == QRoot(a, IF a <= QONE THEN QONE ELSE 2 * QONE)

Qludvig_k0 == QLit(100, 1)
ludwikRef(s) ==
    QMul(Qludvig_k0, QPowLudvigN(ToQ(s) + QLit(1, 100)))

Qavrami_k == QLit(2, 10)
avramiRef(time) == QONE - QExp(QMul(-Qavrami_k, QPow(time, avrami_n)))
avrami_incrementRef(time, increment) ==
    avramiRef(time + increment) - avramiRef(time)

\* ------------------------------------------------------------ Portion
\* start_time of a Portion that has not started to recrystallize (the source's -1)
UnsetStartTime == Lit(-1, 1)

\* Portion.__init__
Portion(portion) ==
    [start_time |-> UnsetStartTime,
     portion |-> portion,
     start_portion |-> portion,
     strain |-> 0]

\* Portion.flow_stress
flow_stress(p) == ludwik(p.strain)

\* ------------------------------------------------------------ inputs
\* The values the globals and the rates are drawn from.  The rates 1 and 8 are
\* the smallest positive floats of the model: with 1, strain_step / rate is
\* infinite; with 8 it is finite and its square is not.  With a step of 0.3 and a
\* maximum of 0.9 the third sum of the steps falls short of the maximum.
StepValues == {Lit(3, 10), Lit(41, 100), Lit(1, 2), 0, Lit(-1, 2)}
MaxValues == {Lit(9, 10), Lit(3, 2), Lit(39, 16), 0}
CriticalValues == {0, Lit(1, 2)}
RateValues == {0, Lit(-1, 2), Lit(1, 2), ONE, 1, 8}

RateLists == UNION {[1..n -> RateValues] : n \in 1..MaxRates}

VARIABLES
    strain_critical,  \* module global: critical strain of recrystallisation
    strain_step,      \* module global: step width of deformation
    strain_max,       \* module global: end of calculation
    rates,            \* module global: the list of rates
    i,                \* position of the list comprehension in rates
    frames,           \* the DataFrames the comprehension has collected
    all_results,      \* module global results: the concatenated table
    pc,               \* "next", "loop", "done" or "raised"
    exc,              \* the exception that left the cell, or "none"
    strain,           \* luton_sellars_solve: strain
    t,                \* luton_sellars_solve: t
    time_step,        \* luton_sellars_solve: time_step
    portions,         \* luton_sellars_solve: portions
    results,          \* luton_sellars_solve: results
    finals,           \* history: the portions of each run at its return
    ret               \* the value the last call of Portion.flow_stress returned

globals == <<strain_critical, strain_step, strain_max, rates>>
frame == <<strain, t, time_step, portions, results>>
vars == <<strain_critical, strain_step, strain_max, rates, i, frames,
          all_results, pc, exc, strain, t, time_step, portions, results, finals,
          ret>>

\* No call of luton_sellars_solve is active.
NoFrame ==
    /\ strain' = 0
    /\ t' = 0
    /\ time_step' = 0
    /\ portions' = <<>>
    /\ results' = <<>>

Init ==
    /\ strain_critical \in CriticalValues
    /\ strain_step \in StepValues
    /\ strain_max \in MaxValues
    /\ rates \in RateLists
    /\ i = 1
    /\ frames = <<>>
    /\ all_results = <<>>
    /\ pc = "next"
    /\ exc = "none"
    /\ strain = 0
    /\ t = 0
    /\ time_step = 0
    /\ portions = <<>>
    /\ results = <<>>
    /\ finals = <<>>
    /\ ret = 0

\* ------------------------------------------------ luton_sellars_solve
\* Eligible, testing the strain of the whole material instead of the portion's
EligibleByDriverStrain(p) == FGe(strain, strain_critical)

\* The portion p is recrystallizing in this iteration.
Eligible(p) == FGe(p.strain, strain_critical)

\* p.start_time after the test of start_time < 0, at the time now
StartTime(p, now) == IF FLt(p.start_time, 0) THEN now ELSE p.start_time

\* RecrystallizedAmount, taken from what is left of the portion
RecrystallizedAmountOfCurrent(p, now, dt) ==
    FMul(avrami_increment(FSub(now, StartTime(p, now)), dt), p.portion)

\* recrystallized_amount of p in an iteration that starts at the time now
RecrystallizedAmount(p, now, dt) ==
    FMul(avrami_increment(FSub(now, StartTime(p, now)), dt), p.start_portion)

\* The body of "for p in portions" for one portion.
Visit(p, now, dt) ==
    IF Eligible(p)
    THEN [start_time |-> StartTime(p, now),
          portion |-> FSub(p.portion, RecrystallizedAmount(p, now, dt)),
          start_portion |-> p.start_portion,
          strain |-> FAdd(p.strain, strain_step)]
    ELSE [p EXCEPT !.strain = FAdd(p.strain, strain_step)]

\* new_portion after the portions 1..n have been visited
RECURSIVE NewPortion(_, _, _, _)
NewPortion(ps, n, now, dt) ==
    IF n = 0 THEN 0
    ELSE IF Eligible(ps[n])
         THEN FAdd(NewPortion(ps, n - 1, now, dt),
                   RecrystallizedAmount(ps[n], now, dt))
         ELSE NewPortion(ps, n - 1, now, dt)

\* AfterLoop, with the append made whether or not anything has recrystallized
AfterLoopAlwaysAppend(ps, now, dt) ==
    LET visited == [k \in 1..Len(ps) |-> Visit(ps[k], now, dt)]
        new_portion == NewPortion(ps, Len(ps), now, dt)
    IN  Append(visited, Portion(new_portion))

\* portions after the for loop and the append
AfterLoop(ps, now, dt) ==
    LET visited == [k \in 1..Len(ps) |-> Visit(ps[k], now, dt)]
        new_portion == NewPortion(ps, Len(ps), now, dt)
    IN  IF FGt(new_portion, 0)
        THEN Append(visited, Portion(new_portion))
        ELSE visited

\* sum(p.portion * p.flow_stress() for p in portions), over the first n portions
RECURSIVE FlowStressSum(_, _)
FlowStressSum(ps, n) ==
    IF n = 0 THEN 0
    ELSE FAdd(FlowStressSum(ps, n - 1), FMul(ps[n].portion, flow_stress(ps[n])))

\* The iteration raises OverflowError in avrami.
IterationRaises(ps, now, dt) ==
    \E k \in 1..Len(ps) :
        /\ Eligible(ps[k])
        /\ IncrementRaises(FSub(now, StartTime(ps[k], now)), dt)

\* The locals of luton_sellars_solve(rate) when the while loop is reached.
Locals(rate) ==
    [strain |-> 0,
     t |-> 0,
     time_step |-> FDiv(strain_step, rate),
     portions |-> <<Portion(ONE)>>,
     results |-> <<>>]

\* Iteration, with the flow stress of the sample summed before the append
IterationStressBeforeAppend(d) ==
    LET ps == AfterLoop(d.portions, d.t, d.time_step)
        s == FAdd(d.strain, strain_step)
        now == FAdd(d.t, d.time_step)
    IN  [strain |-> s,
         t |-> now,
         time_step |-> d.time_step,
         portions |-> ps,
         results |-> Append(d.results,
                            <<now, s, FlowStressSum(ps, Len(d.portions))>>)]

\* The locals after one iteration of the while loop that does not raise.
Iteration(d) ==
    LET ps == AfterLoop(d.portions, d.t, d.time_step)
        s == FAdd(d.strain, strain_step)
        now == FAdd(d.t, d.time_step)
    IN  [strain |-> s,
         t |-> now,
         time_step |-> d.time_step,
         portions |-> ps,
         results |-> Append(d.results, <<now, s, FlowStressSum(ps, Len(ps))>>)]

locals == [strain |-> strain, t |-> t, time_step |-> time_step,
           portions |-> portions, results |-> results]

SetLocals(d) ==
    /\ strain' = d.strain
    /\ t' = d.t
    /\ time_step' = d.time_step
    /\ portions' = d.portions
    /\ results' = d.results

\* Call, with the list of portions kept at module level: the list of the last
\* run is still there when the next run starts.
CallSharedPortions ==
    /\ pc = "next"
    /\ i <= Len(rates)
    /\ IF rates[i] = 0
       THEN /\ pc' = "raised"
            /\ exc' = "ZeroDivisionError"
            /\ NoFrame
       ELSE /\ pc' = "loop"
            /\ exc' = exc
            /\ SetLocals([Locals(rates[i]) EXCEPT
                   !.portions = IF finals = <<>> THEN <<Portion(ONE)>>
                                ELSE finals[Len(finals)]])
    /\ UNCHANGED <<globals, i, frames, all_results, finals, ret>>

\* [luton_sellars_solve(rate) for rate in rates]: the call for rates[i], up to
\* the while loop.  Dividing by a rate of zero raises ZeroDivisionError.
Call ==
    /\ pc = "next"
    /\ i <= Len(rates)
    /\ IF rates[i] = 0
       THEN /\ pc' = "raised"
            /\ exc' = "ZeroDivisionError"
            /\ NoFrame
       ELSE /\ pc' = "loop"
            /\ exc' = exc
            /\ SetLocals(Locals(rates[i]))
    /\ UNCHANGED <<globals, i, frames, all_results, finals, ret>>

\* One iteration of "while strain < strain_max".
Iterate ==
    /\ pc = "loop"
    /\ FLt(strain, strain_max)
    /\ Len(results) < MaxSteps
    /\ ~IterationRaises(portions, t, time_step)
    /\ SetLocals(Iteration(locals))
    /\ UNCHANGED <<globals, i, frames, all_results, pc, exc, finals, ret>>

\* An iteration in which avrami raises: the exception leaves the function and
\* the comprehension.
IterateRaise ==
    /\ pc = "loop"
    /\ FLt(strain, strain_max)
    /\ Len(results) < MaxSteps
    /\ IterationRaises(portions, t, time_step)
    /\ pc' = "raised"
    /\ exc' = "OverflowError"
    /\ NoFrame
    /\ UNCHANGED <<globals, i, frames, all_results, finals, ret>>

\* The loop condition fails: return pd.DataFrame(results).
Return ==
    /\ pc = "loop"
    /\ ~FLt(strain, strain_max)
    /\ frames' = Append(frames, results)
    /\ finals' = Append(finals, portions)
    /\ i' = i + 1
    /\ pc' = "next"
    /\ NoFrame
    /\ UNCHANGED <<globals, all_results, exc, ret>>

\* pd.concat(..., keys=rates).reset_index(level=0, names="rate")
Concat ==
    /\ pc = "next"
    /\ i > Len(rates)
    /\ all_results' = [k \in 1..Len(rates) |-> [rate |-> rates[k], frame |-> frames[k]]]
    /\ pc' = "done"
    /\ UNCHANGED <<globals, i, frames, exc, frame, finals, ret>>

Next == Call \/ Iterate \/ IterateRaise \/ Return \/ Concat

Spec == Init /\ [][Next]_vars

\* ------------------------------------------- calls of Portion.flow_stress
\* flow_stressCall, with a method that stores the offset strain in the object
\* before raising it to the power
flow_stressCallStoring(p) ==
    [self |-> [p EXCEPT !.strain = FAdd(p.strain, Lit(1, 100))],
     ret |-> flow_stress(p)]

\* A call p.flow_stress(): the object after the call and the value returned.
\* The method reads self.strain and assigns nothing.
flow_stressCall(p) == [self |-> p, ret |-> flow_stress(p)]

\* A call of flow_stress on one of the portions of the running
\* luton_sellars_solve, at any point between two iterations.
CallFlowStress ==
    /\ pc = "loop"
    /\ \E k \in 1..Len(portions) :
           LET c == flow_stressCall(portions[k])
           IN  /\ portions' = [portions EXCEPT ![k] = c.self]
               /\ ret' = c.ret
    /\ UNCHANGED <<globals, i, frames, all_results, pc, exc, strain, t,
                   time_step, results, finals>>

\* The runs of a single rate, with calls of flow_stress between the iterations.
InitCalls == Init /\ Len(rates) = 1

NextCalls == Next \/ CallFlowStress

SpecCalls == InitCalls /\ [][NextCalls]_vars

\* ---------------------------------------------- the reference run
\* luton_sellars_solve(0.5) with the constants of the notebook, the strains in
\* binary64 and the times, volume shares and stresses in fixed point.
PortionRef(portion) ==
    [start_time |-> -QONE,
     portion |-> portion,
     start_portion |-> portion,
     strain |-> B64Zero]

flow_stressRef(p) == ludwikRef(p.strain)

\* EligibleRef, with the strain the portion has after "p.strain += strain_step"
EligibleRefAfterIncrement(p) ==
    B64Ge(B64Add(p.strain, strain_step), strain_critical)

\* EligibleRef, with strain_max where strain_critical belongs
EligibleRefAgainstMax(p) == B64Ge(p.strain, strain_max)

\* The portion p is recrystallizing in this iteration.
EligibleRef(p) == B64Ge(p.strain, strain_critical)

StartTimeRef(p, now) == IF p.start_time < 0 THEN now ELSE p.start_time

RecrystallizedAmountRef(p, now, dt) ==
    QMul(avrami_incrementRef(now - StartTimeRef(p, now), dt), p.start_portion)

\* The sum of s[lo..hi]; the terms are integers, so the order of the additions
\* does not change the sum.
RECURSIVE SeqSum(_, _, _)
SeqSum(s, lo, hi) ==
    IF lo > hi THEN 0
    ELSE IF lo = hi THEN s[lo]
    ELSE SeqSum(s, lo, (lo + hi) \div 2) + SeqSum(s, (lo + hi) \div 2 + 1, hi)

\* recrystallized_amount of every portion in an iteration (0 for a portion
\* that is not recrystallizing)
AmountsRef(ps, now, dt) ==
    [k \in 1..Len(ps) |->
        IF EligibleRef(ps[k]) THEN RecrystallizedAmountRef(ps[k], now, dt) ELSE 0]

\* The body of "for p in portions" for one portion.
VisitRef(p, now, amount) ==
    IF EligibleRef(p)
    THEN [start_time |-> StartTimeRef(p, now),
          portion |-> p.portion - amount,
          start_portion |-> p.start_portion,
          strain |-> B64Add(p.strain, strain_step)]
    ELSE [p EXCEPT !.strain = B64Add(p.strain, strain_step)]

\* portions after the for loop and the append
AfterLoopRef(ps, now, dt) ==
    LET amounts == AmountsRef(ps, now, dt)
        visited == [k \in 1..Len(ps) |-> VisitRef(ps[k], now, amounts[k])]
        new_portion == SeqSum(amounts, 1, Len(ps))
    IN  IF new_portion > 0
        THEN Append(visited, PortionRef(new_portion))
        ELSE visited

\* sum(p.portion * p.flow_stress() for p in portions)
FlowStressSumRef(ps) ==
    SeqSum([k \in 1..Len(ps) |-> QMul(ps[k].portion, flow_stressRef(ps[k]))],
           1, Len(ps))

InitReference ==
    /\ strain_critical = B64Lit(1, 2)
    /\ strain_step = B64Lit(2, 100)
    /\ strain_max = B64Lit(4, 1)
    /\ rates = <<QLit(1, 2)>>
    /\ i = 1
    /\ frames = <<>>
    /\ all_results = <<>>
    /\ pc = "next"
    /\ exc = "none"
    /\ strain = B64Zero
    /\ t = 0
    /\ time_step = 0
    /\ portions = <<>>
    /\ results = <<>>
    /\ finals = <<>>
    /\ ret = 0

CallReference ==
    /\ pc = "next"
    /\ i <= Len(rates)
    /\ pc' = "loop"
    /\ strain' = B64Zero
    /\ t' = 0
    /\ time_step' = QDiv(ToQ(strain_step), rates[i])
    /\ portions' = <<PortionRef(QONE)>>
    /\ results' = <<>>
    /\ UNCHANGED <<globals, i, frames, all_results, exc, finals, ret>>

IterateReference ==
    /\ pc = "loop"
    /\ B64Lt(strain, strain_max)
    /\ LET ps == AfterLoopRef(portions, t, time_step)
           s == B64Add(strain, strain_step)
           now == t + time_step
       IN  /\ portions' = ps
           /\ strain' = s
           /\ t' = now
           /\ results' = Append(results, <<now, s, FlowStressSumRef(ps)>>)
    /\ UNCHANGED <<globals, i, frames, all_results, pc, exc, time_step, finals, ret>>

ReturnReference ==
    /\ pc = "loop"
    /\ ~B64Lt(strain, strain_max)
    /\ frames' = Append(frames, results)
    /\ finals' = Append(finals, portions)
    /\ i' = i + 1
    /\ pc' = "next"
    /\ strain' = B64Zero
    /\ t' = 0
    /\ time_step' = 0
    /\ portions' = <<>>
    /\ results' = <<>>
    /\ UNCHANGED <<globals, all_results, exc, ret>>

NextReference == CallReference \/ IterateReference \/ ReturnReference \/ Concat

SpecReference == InitReference /\ [][NextReference]_vars

\* ------------------------------------------------------------ claims
\* The transition is one completed iteration of the while loop.
IsIteration == pc = "loop" /\ pc' = "loop" /\ Len(results') = Len(results) + 1

AllFinite(ps) == \A k \in 1..Len(ps) : IsFinite(ps[k].portion)

RECURSIVE SumPortion(_, _)
SumPortion(ps, n) == IF n = 0 THEN 0 ELSE SumPortion(ps, n - 1) + ps[n].portion

\* The tolerance of the volume balance.  1e-9 is about 2^-30, a little over half
\* of the 53 significant bits of a double; the model keeps half of its bits.
Tolerance == ONE \div 2^(MantBits \div 2)

\* C1: in a run with strain_rate > 0 and strain_step > 0 the volume shares of all
\* portions sum to 1, within the tolerance, after every iteration.
VolumeConservation ==
    (pc = "loop" /\ rates[i] > 0 /\ strain_step > 0) =>
        /\ AllFinite(portions)
        /\ Abs(SumPortion(portions, Len(portions)) - ONE) <= Tolerance

\* ceil(a / b) of two positive floats, the quotient taken exactly
CeilExact(a, b) == (a + b - 1) \div b
\* ceil(a / b) of two positive floats, the quotient a float
CeilFloat(a, b) == (FDiv(a, b) + ONE - 1) \div ONE

\* C2: for strain_step > 0, strain_max > 0 and strain_rate > 0 a run that returns
\* has made exactly ceil(strain_max / strain_step) iterations and holds that many
\* samples (the quotient read either as the exact one or as the float one).
TerminationCount ==
    \A k \in 1..Len(frames) :
        (strain_step > 0 /\ strain_max > 0 /\ rates[k] > 0) =>
            Len(frames[k]) \in {CeilExact(strain_max, strain_step),
                                CeilFloat(strain_max, strain_step)}

OnsetImmutable ==
    [][IsIteration =>
         \A k \in 1..Len(portions) :
             portions[k].start_time # UnsetStartTime =>
                 portions'[k].start_time = portions[k].start_time]_vars

\* C5: the strain of a portion never decreases, and every iteration after the
\* one that created the portion adds strain_step to it.
MonotonicStrain ==
    [][IsIteration =>
         \A k \in 1..Len(portions) :
             /\ portions'[k].strain >= portions[k].strain
             /\ portions'[k].strain = FAdd(portions[k].strain, strain_step)]_vars

\* The configuration of the run for rates[k] is one the design accepts.
GoodConfiguration(k) == strain_step > 0 /\ strain_max > 0 /\ rates[k] > 0

\* C6: a run with a non-positive strain_step, strain_max or strain_rate never
\* reaches the while loop and never returns a result.
ConfigurationErrorBeforeLoop ==
    /\ pc = "loop" => GoodConfiguration(i)
    /\ \A k \in 1..Len(frames) : GoodConfiguration(k)

\* C7: when the cell has stopped, every rate of the list has been tried and the
\* result of every run that returned is in the table.
FailureIsolation ==
    pc \in {"done", "raised"} =>
        /\ i >= Len(rates)
        /\ Len(all_results) = Len(frames)

\* NaN or an infinity
NonFinite(a) == IsNaN(a) \/ IsInf(a)

\* C8: no sample with a non-finite flow stress is appended to the results.
NoNonFiniteSample ==
    \A k \in 1..Len(results) : ~NonFinite(results[k][3])

\* C9: two runs of the same list with the same rate return the same samples and
\* end with the same portions.
Determinism ==
    \A j, k \in 1..Len(frames) :
        rates[j] = rates[k] => frames[j] = frames[k] /\ finals[j] = finals[k]

\* C9 witness: the same rate has been run twice, with recrystallization.
DeterminismWitness ==
    /\ Len(frames) = 2
    /\ rates[1] = rates[2]
    /\ Len(frames[2]) >= 3
    /\ Len(finals[2]) >= 3

\* The locals of a run n iterations after its start, as a function of the rate
\* alone (the run stops early when the loop ends or avrami raises).
RECURSIVE RunFrom(_, _)
RunFrom(d, n) ==
    IF n > 0 /\ FLt(d.strain, strain_max)
             /\ ~IterationRaises(d.portions, d.t, d.time_step)
    THEN RunFrom(Iteration(d), n - 1)
    ELSE d

\* C10: every run starts from one full portion at strain 0 and time 0 with no
\* sample, and what a run returns (its samples, and the portions it ends with)
\* is what a run of its rate alone computes, whatever was run before it in the list.
Independence ==
    /\ (pc = "loop" /\ results = <<>>) =>
           /\ strain = 0
           /\ t = 0
           /\ Len(portions) = 1
           /\ portions[1].portion = ONE
           /\ portions[1].strain = 0
    /\ pc = "next" =>
           \A k \in 1..Len(frames) :
               /\ frames[k] = RunFrom(Locals(rates[k]), MaxSteps).results
               /\ finals[k] = RunFrom(Locals(rates[k]), MaxSteps).portions

\* C10 witness: a second run, after a different rate, has produced portions.
IndependenceWitness ==
    /\ Len(frames) = 2
    /\ rates[1] # rates[2]
    /\ Len(finals[1]) >= 3
    /\ Len(finals[2]) >= 3
    /\ frames[1] # frames[2]

Min(a, b) == IF a < b THEN a ELSE b

\* C11: of two runs of the same list with rates r1 < r2, the k-th samples carry
\* the same strain, and the time of the k-th sample of the run with r1 is
\* strictly greater than that of the run with r2.
RateOrdering ==
    \A j, k \in 1..Len(frames) :
        rates[j] < rates[k] =>
            \A n \in 1..Min(Len(frames[j]), Len(frames[k])) :
                /\ frames[j][n][2] = frames[k][n][2]
                /\ FGt(frames[j][n][1], frames[k][n][1])

\* C14: an iteration removes and reorders nothing: every portion stays at its
\* index (as the loop body leaves it), and one portion is appended at the end
\* exactly when the volume recrystallized in the iteration is strictly positive.
AppendOnly ==
    [][IsIteration =>
         /\ \A k \in 1..Len(portions) :
                /\ k <= Len(portions')
                /\ portions'[k] = Visit(portions[k], t, time_step)
         /\ Len(portions') \in {Len(portions), Len(portions) + 1}
         /\ Len(portions') = Len(portions) + 1
                <=> FGt(NewPortion(portions, Len(portions), t, time_step), 0)]_vars

\* C14 witness: a run with iterations that appended and iterations that did not.
AppendOnlyWitness ==
    /\ pc = "loop"
    /\ Len(portions) >= 3
    /\ Len(results) > Len(portions)

AggregateStress ==
    (pc = "loop" /\ results # <<>>) =>
        results[Len(results)][3] = FlowStressSum(portions, Len(portions))

\* C17 witness: the sample of an iteration that appended a portion.
AggregateStressWitness ==
    /\ pc = "loop"
    /\ results # <<>>
    /\ Len(portions) >= 2
    /\ portions[Len(portions)].strain = 0
    /\ portions[Len(portions)].portion > 0
    /\ portions[1].portion > 0
    /\ IsFinite(results[Len(results)][3])
    /\ FlowStressSum(portions, Len(portions))
           > FlowStressSum(portions, Len(portions) - 1)

\* C18: the k-th sample of a run carries the strain k * strain_step and the time
\* k * time_step, both strictly increasing from sample to sample; the last sample is
\* that of the iteration just made (one sample per iteration, none before).
SampleSequence ==
    /\ pc = "loop" =>
           /\ \A k \in 1..Len(results) :
                  /\ results[k][2] = FMul(k * ONE, strain_step)
                  /\ results[k][1] = FMul(k * ONE, time_step)
           /\ \A k \in 1..(Len(results) - 1) :
                  /\ FLt(results[k][2], results[k + 1][2])
                  /\ FLt(results[k][1], results[k + 1][1])
    /\ (pc = "loop" /\ results # <<>>) =>
           /\ results[Len(results)][2] = strain
           /\ results[Len(results)][1] = t

\* C19: a portion is created with strain 0, start_time unset and portion =
\* start_portion = the volume it is created with: 1 for the portion a run starts
\* with, the volume recrystallized in the iteration for an appended one.  The
\* start_portion never changes, and the amount a recrystallizing portion loses
\* is the Avrami increment times its start_portion.
PortionCreation ==
    [][/\ (pc = "next" /\ pc' = "loop") =>
              portions' = <<[start_time |-> UnsetStartTime, portion |-> ONE,
                             start_portion |-> ONE, strain |-> 0]>>
       /\ IsIteration =>
              /\ Len(portions') > Len(portions) =>
                     portions'[Len(portions')] =
                         [start_time |-> UnsetStartTime,
                          portion |-> NewPortion(portions, Len(portions),
                                                 t, time_step),
                          start_portion |-> NewPortion(portions, Len(portions),
                                                       t, time_step),
                          strain |-> 0]
              /\ \A k \in 1..Len(portions) :
                     /\ portions'[k].start_portion = portions[k].start_portion
                     /\ FGe(portions[k].strain, strain_critical) =>
                            portions'[k].portion =
                                FSub(portions[k].portion,
                                     FMul(avrami_increment(
                                              FSub(t, portions'[k].start_time),
                                              time_step),
                                          portions[k].start_portion))]_vars

\* C19 witness: the first portion has recrystallized in part, in at least two
\* iterations, and the portions it fed are still below strain_critical.
PortionCreationWitness ==
    /\ pc = "loop"
    /\ Len(portions) >= 3
    /\ portions[1].portion > 0
    /\ portions[1].portion < portions[1].start_portion
    /\ portions[2].strain < strain_critical
    /\ portions[2].portion = portions[2].start_portion
    /\ portions[3].portion > 0

\* C20: a portion appended in an iteration leaves that iteration with strain 0
\* (the for loop has not visited it), and each later iteration takes its strain
\* from j * strain_step to (j + 1) * strain_step: after j further iterations the
\* strain is j * strain_step.
FreshPortionStrain ==
    [][IsIteration =>
         /\ Len(portions') > Len(portions) =>
                portions'[Len(portions')].strain = 0
         /\ \A k \in 2..Len(portions) :
                \A j \in 0..MaxSteps :
                    portions[k].strain = FMul(j * ONE, strain_step) =>
                        portions'[k].strain
                            = FMul((j + 1) * ONE, strain_step)]_vars

\* C12: in the reference run (strain_critical = 0.5, strain_step = 0.02,
\* strain_max = 4, rate 0.5) the first portion is below strain_critical after
\* fewer than 25 iterations and at or above it after 25; there is exactly one
\* portion up to and including iteration 25, and a second one from the end of
\* iteration 26 on.
ReferencePopulation ==
    pc = "loop" =>
        /\ Len(results) < 25 => B64Lt(portions[1].strain, strain_critical)
        /\ Len(results) = 25 => B64Ge(portions[1].strain, strain_critical)
        /\ Len(results) <= 25 => Len(portions) = 1
        /\ Len(results) >= 26 => Len(portions) >= 2

\* C12 witness: the end of iteration 26, with the second portion just appended.
ReferencePopulationWitness ==
    /\ pc = "loop"
    /\ Len(results) = 26
    /\ Len(portions) = 2
    /\ portions[2].portion > 0
    /\ B64IsZero(portions[2].strain)

\* C13: the flow stress of the last sample of the reference run is strictly
\* positive and strictly below ludwik(strain_max).
ReferenceStress ==
    \A k \in 1..Len(frames) :
        /\ frames[k] # <<>>
        /\ frames[k][Len(frames[k])][3] > 0
        /\ frames[k][Len(frames[k])][3] < ludwikRef(strain_max)

\* C13 witness: the reference run has returned, after recrystallization, with
\* its strain at strain_max or above.
ReferenceStressWitness ==
    /\ Len(frames) = 1
    /\ Len(frames[1]) >= 100
    /\ Len(finals[1]) >= 100
    /\ B64Ge(frames[1][Len(frames[1])][2], strain_max)

\* C21: only portions with a strain strictly above strain_critical recrystallize:
\* a portion whose strain equals strain_critical when an iteration starts keeps
\* its volume share and its start_time in that iteration (stated for the runs
\* with strain_step > 0, strain_max > 0 and rate > 0).
StrictThreshold ==
    [][(IsIteration /\ GoodConfiguration(i)) =>
         \A k \in 1..Len(portions) :
             portions[k].strain = strain_critical =>
                 /\ portions'[k].portion = portions[k].portion
                 /\ portions'[k].start_time = portions[k].start_time]_vars

\* The code takes the start_time a for a portion that has not started.
TreatedAsUnset(a) == FLt(a, 0)

\* C22: the start_time a run assigns to a recrystallizing portion, a time of 0
\* included, is distinct from the marker of an unset start_time, and the code
\* does not take it for unset afterwards.
UnsetMarkerDistinct ==
    [][IsIteration =>
         \A k \in 1..Len(portions) :
             Eligible(portions[k]) =>
                 /\ portions'[k].start_time # UnsetStartTime
                 /\ ~TreatedAsUnset(portions'[k].start_time)]_vars

\* The transition is a call of flow_stress outside the iterations.
IsFlowStressCall == pc = "loop" /\ pc' = "loop" /\ results' = results

\* C23: a call of flow_stress, repeated any number of times, changes no field of
\* any portion and nothing of the state of luton_sellars_solve, and returns
\* ludwik of the strain of a portion.
FlowStressPure ==
    [][IsFlowStressCall =>
         /\ portions' = portions
         /\ UNCHANGED <<strain, t, time_step, results, globals>>
         /\ \E k \in 1..Len(portions) : ret' = ludwik(portions[k].strain)]_vars

\* C23 witness: flow_stress has been called on a portion that has recrystallized
\* in part, and on another portion before it.
FlowStressPureWitness ==
    /\ pc = "loop"
    /\ Len(portions) >= 2
    /\ portions[1].portion < portions[1].start_portion
    /\ ret = ludwik(portions[2].strain)
    /\ ret # ludwik(portions[1].strain)
    /\ ret # 0

\* The volume share the closed form gives the portion p at the time now.
ClosedForm(p, now) ==
    IF p.start_time = UnsetStartTime
    THEN p.start_portion
    ELSE FMul(p.start_portion, FSub(ONE, avrami(FSub(now, p.start_time))))

\* C24: after every iteration the volume share of a portion whose start_time is
\* set is start_portion * (1 - avrami(t - start_time)), and that of a portion
\* whose start_time is unset is its start_portion (equal within the tolerance
\* of the volume balance, to allow for the rounding of the sums).
ClosedFormVolume ==
    pc = "loop" =>
        \A k \in 1..Len(portions) :
            /\ IsFinite(portions[k].portion)
            /\ IsFinite(ClosedForm(portions[k], t))
            /\ Abs(portions[k].portion - ClosedForm(portions[k], t)) <= Tolerance

Max(a, b) == IF a > b THEN a ELSE b

StrainOrdering ==
    (pc = "loop" /\ results # <<>>) =>
        /\ portions[1].strain = strain
        /\ \A k \in 2..Len(portions) :
               /\ FLt(portions[k].strain, portions[k - 1].strain)
               /\ FLt(portions[k].strain, strain)

\* C27: after every iteration that leaves the start_time of the first portion
\* unset, the first portion is the only one, its volume share is 1, and the
\* flow stress of the sample is ludwik of the strain of the whole material.
PureHardening ==
    (pc = "loop" /\ results # <<>>
                 /\ portions[1].start_time = UnsetStartTime) =>
        /\ Len(portions) = 1
        /\ portions[1].portion = ONE
        /\ results[Len(results)][2] = strain
        /\ results[Len(results)][3] = ludwik(strain)

\* C28: in a run with rate > 0 the flow stress of every sample is positive and
\* at most ludwik of the strain of the sample, and below it once there is a
\* second portion.
SofteningBound ==
    [][(IsIteration /\ rates[i] > 0) =>
         LET sample == results'[Len(results')]
         IN  /\ FGt(sample[3], 0)
             /\ FGe(ludwik(sample[2]), sample[3])
             /\ Len(portions') >= 2 => FLt(sample[3], ludwik(sample[2]))]_vars

\* The samples res of a run that has returned end with one overshoot.
OneOvershoot(res) ==
    /\ res # <<>>
    /\ \A k \in 1..(Len(res) - 1) : FLt(res[k][2], strain_max)
    /\ FGe(res[Len(res)][2], strain_max)
    /\ FLt(res[Len(res)][2], FAdd(strain_max, strain_step))

\* C29: for strain_step > 0 and strain_max > 0 the result of a run is not
\* empty, the strain of every sample but the last is below strain_max, and the
\* strain of the last one is at least strain_max and below
\* strain_max + strain_step.
Overshoot ==
    (strain_step > 0 /\ strain_max > 0) =>
        \A k \in 1..Len(frames) : OneOvershoot(frames[k])

====
